---- MODULE Spec2Model ----
(***************************************************************************)
(* A model of src/app.py (Web Content Assistant): the scrape_website       *)
(* extraction pipeline over a parsed markup tree, the two LLM adapters     *)
(* summarize_content / chat_with_content, and the Streamlit session state  *)
(* driven by the "Scrape Website" and "Send" buttons.                      *)
(*                                                                         *)
(* Page text is a Python str.  It is modelled as a run-length encoded      *)
(* sequence of characters: a sequence of runs [c |-> character, n |->      *)
(* count], no two adjacent runs carrying the same character and no run     *)
(* being empty.  Two texts are equal exactly when the strings are, and a   *)
(* text of several thousand characters stays a handful of runs, so that    *)
(* the thresholds of the source (100, 10, 3000, 1000, 7500) are the real   *)
(* ones.  Attribute values, URLs and LLM messages are TLA+ strings.        *)
(***************************************************************************)
EXTENDS Integers, Sequences, FiniteSets, TLC

(***************************************************************************)
(* Python str operations on run-length encoded text                        *)
(***************************************************************************)

\* c * n  (a character repeated, as in '#' * level)
Rep(c, n) == IF n <= 0 THEN <<>> ELSE <<[c |-> c, n |-> n]>>

\* a + b  (string concatenation; adjacent equal runs merge)
Cat(a, b) ==
  IF a = <<>> THEN b
  ELSE IF b = <<>> THEN a
  ELSE IF a[Len(a)].c = b[1].c
       THEN SubSeq(a, 1, Len(a) - 1)
              \o <<[c |-> b[1].c, n |-> a[Len(a)].n + b[1].n]>>
              \o Tail(b)
       ELSE a \o b

RECURSIVE CatAll(_)
\* "".join(parts)
CatAll(parts) ==
  IF parts = <<>> THEN <<>> ELSE Cat(Head(parts), CatAll(Tail(parts)))

RECURSIVE Str(_)
\* the text of a string literal
Str(lit) ==
  IF Len(lit) = 0 THEN <<>>
  ELSE Cat(Rep(SubSeq(lit, 1, 1), 1), Str(SubSeq(lit, 2, Len(lit))))

RECURSIVE len(_)
\* len(s)
len(s) == IF s = <<>> THEN 0 ELSE s[1].n + len(Tail(s))

\* the characters Python's str.strip() and the regex class \s treat as space
Whitespace == {" ", "\n", "\t", "\r"}

IsSpace(c) == c \in Whitespace

RECURSIVE lstrip(_)
lstrip(s) ==
  IF s = <<>> THEN <<>>
  ELSE IF IsSpace(s[1].c) THEN lstrip(Tail(s)) ELSE s

RECURSIVE rstrip(_)
rstrip(s) ==
  IF s = <<>> THEN <<>>
  ELSE IF IsSpace(s[Len(s)].c) THEN rstrip(SubSeq(s, 1, Len(s) - 1)) ELSE s

\* s.strip()
strip(s) == rstrip(lstrip(s))

RECURSIVE re_sub_ws(_)
\* re.sub(r'\s+', ' ', s): every maximal run of whitespace becomes one space
re_sub_ws(s) ==
  IF s = <<>> THEN <<>>
  ELSE IF IsSpace(s[1].c)
       THEN Cat(Rep(" ", 1), re_sub_ws(lstrip(s)))
       ELSE Cat(<<s[1]>>, re_sub_ws(Tail(s)))

RECURSIVE join(_, _)
\* sep.join(parts)
join(sep, parts) ==
  IF parts = <<>> THEN <<>>
  ELSE IF Len(parts) = 1 THEN parts[1]
       ELSE Cat(Cat(parts[1], sep), join(sep, Tail(parts)))

Digits == "0123456789"

RECURSIVE IntStr(_)
\* str(n) for n >= 0, as in f"{i+1}. "
IntStr(n) ==
  IF n < 10 THEN Rep(SubSeq(Digits, n + 1, n + 1), 1)
  ELSE Cat(IntStr(n \div 10), Rep(SubSeq(Digits, (n % 10) + 1, (n % 10) + 1), 1))

(***************************************************************************)
(* Python str operations on attribute values and URLs (TLA+ strings)       *)
(***************************************************************************)

UpperCase == "ABCDEFGHIJKLMNOPQRSTUVWXYZ"
LowerCase == "abcdefghijklmnopqrstuvwxyz"

LowerChar(ch) ==
  IF \E i \in 1..26 : SubSeq(UpperCase, i, i) = ch
  THEN LET i == CHOOSE j \in 1..26 : SubSeq(UpperCase, j, j) = ch
       IN  SubSeq(LowerCase, i, i)
  ELSE ch

RECURSIVE lower(_)
\* s.lower()
lower(s) ==
  IF Len(s) = 0 THEN ""
  ELSE LowerChar(SubSeq(s, 1, 1)) \o lower(SubSeq(s, 2, Len(s)))

\* s.startswith(p)
startswith(s, p) == Len(s) >= Len(p) /\ SubSeq(s, 1, Len(p)) = p

\* term in s
contains(s, term) ==
  \E i \in 1..(Len(s) - Len(term) + 1) : SubSeq(s, i, i + Len(term) - 1) = term

\* s.find(term, from) as a 1-based index, 0 when absent
find(s, term, from) ==
  LET hits == {i \in from..(Len(s) - Len(term) + 1) :
                  SubSeq(s, i, i + Len(term) - 1) = term}
  IN  IF hits = {} THEN 0 ELSE CHOOSE i \in hits : \A j \in hits : i <= j

\* urllib.parse.urljoin(base, url) for the reference forms the pages below
\* use: an empty reference, a root-relative path ("/a.png") and a
\* document-relative path ("b.html"); base is "scheme://host[/path]".
urljoin(base, url) ==
  LET hostStart == find(base, "://", 1) + 3
      pathStart == find(base, "/", hostStart)
      origin    == IF pathStart = 0 THEN base ELSE SubSeq(base, 1, pathStart - 1)
      slashes   == {i \in 1..Len(base) : i >= pathStart /\ SubSeq(base, i, i) = "/"}
      lastSlash == CHOOSE i \in slashes : \A j \in slashes : j <= i
  IN  IF url = "" THEN base
      ELSE IF startswith(url, "/") THEN origin \o url
      ELSE IF pathStart = 0 THEN origin \o "/" \o url
      ELSE SubSeq(base, 1, lastSlash) \o url

(***************************************************************************)
(* Python None, where a text or an attribute value may be None             *)
(***************************************************************************)

\* None in a place that otherwise holds a text (no text has an empty run)
NoneText == <<[c |-> "", n |-> 0]>>

(***************************************************************************)
(* The parsed tree (BeautifulSoup(response.text, 'html.parser')).          *)
(* A tree is the sequence of its nodes in document order (pre-order), each *)
(* node carrying its depth: the descendants of node i are the nodes that   *)
(* follow it for as long as their depth is greater than that of i.  An     *)
(* element has a tag and attributes; a text node has tag "#text" and text. *)
(***************************************************************************)

NoAttrs == <<>>

\* a Python list built element by element, as an explicit sequence
List(f) == <<>> \o f

Txt(s) == <<[tag |-> "#text", depth |-> 0, attrs |-> NoAttrs, text |-> s]>>

RECURSIVE Flatten(_)
Flatten(kids) == IF kids = <<>> THEN <<>> ELSE Head(kids) \o Flatten(Tail(kids))

Deeper(nodes) == List([i \in 1..Len(nodes) |-> [nodes[i] EXCEPT !.depth = @ + 1]])

\* an element with its attributes and children
El(tag, attrs, kids) ==
  <<[tag |-> tag, depth |-> 0, attrs |-> attrs, text |-> <<>>]>>
    \o Deeper(Flatten(kids))

RECURSIVE SortedSeq(_)
\* the elements of a finite set of integers, ascending (document order)
SortedSeq(S) ==
  IF S = {} THEN <<>>
  ELSE LET m == CHOOSE a \in S : \A b \in S : a <= b
       IN  <<m>> \o SortedSeq(S \ {m})

\* the elements of xs at the indices in S, in order
Keep(xs, S) ==
  LET idx == SortedSeq(S) IN List([k \in 1..Len(idx) |-> xs[idx[k]]])

\* the last index of the subtree rooted at node i
SubtreeEnd(soup, i) ==
  LET stops == {j \in (i + 1)..Len(soup) : soup[j].depth <= soup[i].depth}
  IN  IF stops = {} THEN Len(soup)
      ELSE (CHOOSE j \in stops : \A k \in stops : j <= k) - 1

\* the indices of the descendants of node i; i = 0 is the BeautifulSoup object
Descendants(soup, i) ==
  IF i = 0 THEN 1..Len(soup) ELSE (i + 1)..SubtreeEnd(soup, i)

\* element.contents: the children of node i
Contents(soup, i) ==
  SortedSeq({j \in Descendants(soup, i) :
               soup[j].depth = (IF i = 0 THEN 0 ELSE soup[i].depth + 1)})

\* element.find_all(tags): descendants of node i with one of the tags
find_all(soup, i, tags) ==
  SortedSeq({j \in Descendants(soup, i) : soup[j].tag \in tags})

\* element.get(attr, default)
get(node, attr, default) ==
  IF attr \in DOMAIN node.attrs THEN node.attrs[attr] ELSE default

\* the strings get_text joins: every text node under i, each stripped and
\* the empty ones dropped when strip=True
Strings(soup, i, stripped) ==
  LET idx == SortedSeq({j \in Descendants(soup, i) : soup[j].tag = "#text"})
      raw == List([k \in 1..Len(idx) |->
                IF stripped THEN strip(soup[idx[k]].text) ELSE soup[idx[k]].text])
  IN  IF stripped THEN Keep(raw, {k \in 1..Len(raw) : raw[k] # <<>>}) ELSE raw

\* element.get_text(separator=sep, strip=stripped)
get_text(soup, i, sep, stripped) == join(sep, Strings(soup, i, stripped))

RECURSIVE string(_, _)
\* element.string: the single text child, through single element children
string(soup, i) ==
  LET kids == Contents(soup, i)
  IN  IF Len(kids) # 1 THEN NoneText
      ELSE IF soup[kids[1]].tag = "#text" THEN soup[kids[1]].text
      ELSE string(soup, kids[1])

(***************************************************************************)
(* scrape_website: the Extractor                                           *)
(***************************************************************************)

BlockMinLen == 100
ParagraphMinLen == 10
FallbackALimit == 3000
FallbackBLimit == 1000
ImagesLimit == 30
LinksLimit == 50

\* title = soup.title.string if soup.title else "No title found"
title(soup) ==
  LET t == find_all(soup, 0, {"title"})
  IN  IF t # <<>> THEN string(soup, t[1]) ELSE Str("No title found")

RECURSIVE meta_fold(_, _, _)
meta_fold(soup, idx, acc) ==
  IF idx = <<>> THEN acc
  ELSE LET meta == soup[Head(idx)]
           key  == IF get(meta, "name", "") # "" THEN get(meta, "name", "")
                   ELSE get(meta, "property", "")
           val  == IF "content" \in DOMAIN meta.attrs
                   THEN Str(meta.attrs["content"]) ELSE NoneText
       IN  meta_fold(soup, Tail(idx),
                     IF key = "" THEN acc ELSE (key :> val) @@ acc)

\* the meta_data dict: name or property -> content, later entries overwrite
meta_data(soup) ==
  meta_fold(soup, find_all(soup, 0, {"meta"}), [k \in {} |-> NoneText])

\* description = meta_data.get('description', "No description found")
description(md) ==
  IF "description" \in DOMAIN md THEN md["description"]
  ELSE Str("No description found")

StripTags == {"script", "style", "noscript", "iframe", "head"}

\* for script_or_style in soup([...]): script_or_style.extract()
\* every listed element leaves the tree, with its subtree
extract_all(soup) ==
  LET found == find_all(soup, 0, StripTags)
      gone  == {j \in 1..Len(soup) :
                  \E k \in 1..Len(found) :
                     found[k] <= j /\ j <= SubtreeEnd(soup, found[k])}
      kept  == SortedSeq((1..Len(soup)) \ gone)
  IN  List([k \in 1..Len(kept) |-> soup[kept[k]]])

\* all_text = re.sub(r'\s+', ' ', soup.get_text(separator=' ', strip=True)).strip()
all_text(soup) == strip(re_sub_ws(get_text(soup, 0, Str(" "), TRUE)))

Levels == 1..6

\* f'h{i}'
HeaderKey(i) == <<"h1", "h2", "h3", "h4", "h5", "h6">>[i]

\* [h.get_text(strip=True) for h in soup.find_all(f'h{i}')]
headers_of(soup, key) ==
  LET hs == find_all(soup, 0, {key})
  IN  List([k \in 1..Len(hs) |-> get_text(soup, hs[k], <<>>, TRUE)])

\* headers[f'h{i}'] = ... for i in range(1, 7)
headers(soup) ==
  [h1 |-> headers_of(soup, HeaderKey(1)), h2 |-> headers_of(soup, HeaderKey(2)),
   h3 |-> headers_of(soup, HeaderKey(3)), h4 |-> headers_of(soup, HeaderKey(4)),
   h5 |-> headers_of(soup, HeaderKey(5)), h6 |-> headers_of(soup, HeaderKey(6))]

BlockTags == <<"article", "section", "div", "main">>
Keywords == {"content", "main", "article", "body", "text"}

\* class_=lambda x: x and any(term in str(x).lower() for term in [...])
\* (no keyword holds a space, so matching the class values one by one or
\* joined, as BeautifulSoup does for the multi-valued class, is the same)
class_matches(node) ==
  LET x == get(node, "class", "")
  IN  x # "" /\ \E term \in Keywords : contains(lower(x), term)

\* if len(block_text) > 100: the test is on the text as get_text returns it
keep_block(block_text) == len(block_text) > BlockMinLen

\* the blocks of one tag, in document order
blocks_of(soup, tag) ==
  LET els  == SortedSeq({j \in 1..Len(soup) :
                           soup[j].tag = tag /\ class_matches(soup[j])})
      txts == List([k \in 1..Len(els) |-> get_text(soup, els[k], Str(" "), TRUE)])
      kept == Keep(txts, {k \in 1..Len(txts) : keep_block(txts[k])})
  IN  List([k \in 1..Len(kept) |-> [type |-> tag, text |-> re_sub_ws(kept[k])]])

content_blocks(soup) ==
  blocks_of(soup, BlockTags[1]) \o blocks_of(soup, BlockTags[2])
    \o blocks_of(soup, BlockTags[3]) \o blocks_of(soup, BlockTags[4])

\* if len(text) > 10
keep_paragraph(text) == len(text) > ParagraphMinLen

paragraphs(soup) ==
  LET ps   == find_all(soup, 0, {"p"})
      txts == List([k \in 1..Len(ps) |-> get_text(soup, ps[k], <<>>, TRUE)])
  IN  Keep(txts, {k \in 1..Len(txts) : keep_paragraph(txts[k])})

\* items = [li.get_text(strip=True) for li in list_tag.find_all('li')]
list_items(soup, i) ==
  LET lis == find_all(soup, i, {"li"})
  IN  List([k \in 1..Len(lis) |-> get_text(soup, lis[k], <<>>, TRUE)])

\* if items: a Python list is true when it is not empty
keep_list(items) == items # <<>>

lists(soup) ==
  LET ls   == find_all(soup, 0, {"ul", "ol"})
      all  == List([k \in 1..Len(ls) |->
                 [type |-> soup[ls[k]].tag, items |-> list_items(soup, ls[k])]])
  IN  Keep(all, {k \in 1..Len(all) : keep_list(all[k].items)})

\* one table: headers from every th of the table, a row for every tr that
\* has td/th cells
table_of(soup, i) ==
  LET ths  == find_all(soup, i, {"th"})
      rows == find_all(soup, i, {"tr"})
      data == List([k \in 1..Len(rows) |->
                 LET cells == find_all(soup, rows[k], {"td", "th"})
                 IN  List([c \in 1..Len(cells) |->
                            get_text(soup, cells[c], <<>>, TRUE)])])
  IN  [headers |-> List([k \in 1..Len(ths) |-> get_text(soup, ths[k], <<>>, TRUE)]),
       data    |-> Keep(data, {k \in 1..Len(data) : data[k] # <<>>})]

tables(soup) ==
  LET ts  == find_all(soup, 0, {"table"})
      all == List([k \in 1..Len(ts) |-> table_of(soup, ts[k])])
  IN  Keep(all, {k \in 1..Len(all) : all[k].data # <<>>})

\* not src.startswith(('http://', 'https://'))
image_is_relative(src) ==
  ~ (startswith(src, "http://") \/ startswith(src, "https://"))

images(soup, url) ==
  LET imgs == find_all(soup, 0, {"img"})
      all  == List([k \in 1..Len(imgs) |->
                 LET src == get(soup[imgs[k]], "src", "")
                 IN  [src |-> IF src # "" /\ image_is_relative(src)
                              THEN urljoin(url, src) ELSE src,
                      alt |-> get(soup[imgs[k]], "alt", "No description")]])
  IN  Keep(all, {k \in 1..Len(all) : all[k].src # ""})

\* not href.startswith(('http://', 'https://', 'mailto:', 'tel:'))
link_is_relative(href) ==
  ~ (startswith(href, "http://") \/ startswith(href, "https://")
       \/ startswith(href, "mailto:") \/ startswith(href, "tel:"))

links(soup, url) ==
  LET as == SortedSeq({j \in 1..Len(soup) :
                         soup[j].tag = "a" /\ "href" \in DOMAIN soup[j].attrs})
  IN  List([k \in 1..Len(as) |->
         LET raw  == soup[as[k]].attrs["href"]
             href == IF link_is_relative(raw) THEN urljoin(url, raw) ELSE raw
             text == get_text(soup, as[k], <<>>, TRUE)
         IN  [url |-> href, text |-> IF text # <<>> THEN text ELSE Str(href)]])

\* xs[:k] of a list
first(xs, k) == SubSeq(xs, 1, IF Len(xs) < k THEN Len(xs) ELSE k)

(***************************************************************************)
(* scrape_website: the Condenser (combined_content)                        *)
(***************************************************************************)

\* f"\n{'#' * level} {header}\n" for every header of every level, by level
headers_text(hdrs) ==
  CatAll([i \in Levels |->
    CatAll([k \in 1..Len(hdrs[HeaderKey(i)]) |->
      CatAll(<<Str("\n"), Rep("#", i), Str(" "), hdrs[HeaderKey(i)][k], Str("\n")>>)])])

\* f"\n{block['text']}\n" for every block
blocks_text(blocks) ==
  CatAll([k \in 1..Len(blocks) |-> CatAll(<<Str("\n"), blocks[k].text, Str("\n")>>)])

\* line 178 with <= for <
fallback_a_inclusive(so_far) == len(so_far) <= FallbackALimit

\* if len(combined_content) < 3000
fallback_a(so_far) == len(so_far) < FallbackALimit

\* f"\n{p}\n" for every paragraph
paragraphs_text(ps) ==
  CatAll([k \in 1..Len(ps) |-> CatAll(<<Str("\n"), ps[k], Str("\n")>>)])

\* "\n", then f"{prefix}{item}\n" for every item, for every list
lists_text(ls) ==
  CatAll([k \in 1..Len(ls) |->
    Cat(Str("\n"),
        CatAll([i \in 1..Len(ls[k].items) |->
          CatAll(<<IF ls[k].type = "ul" THEN Str("- ")
                   ELSE Cat(IntStr(i), Str(". ")),
                   ls[k].items[i], Str("\n")>>)]))])

\* combined_content as it stands before the paragraph step
before_paragraphs(hdrs, blocks) == Cat(headers_text(hdrs), blocks_text(blocks))

\* combined_content as it stands after the list step
after_lists(hdrs, blocks, ps, ls) ==
  LET so_far == before_paragraphs(hdrs, blocks)
      with_p == IF fallback_a(so_far) THEN Cat(so_far, paragraphs_text(ps))
                ELSE so_far
  IN  Cat(with_p, lists_text(ls))

\* line 190 without .strip(): the test on the untrimmed text
fallback_b_untrimmed(accumulated) == len(accumulated) < FallbackBLimit

\* if len(combined_content.strip()) < 1000
fallback_b(accumulated) == len(strip(accumulated)) < FallbackBLimit

combined_content(hdrs, blocks, ps, ls, all) ==
  LET accumulated == after_lists(hdrs, blocks, ps, ls)
  IN  IF fallback_b(accumulated) THEN all ELSE accumulated

(***************************************************************************)
(* scrape_website                                                          *)
(***************************************************************************)

\* the tree as scrape_website leaves it: the strip is done on the tree itself
tree_after(soup) == extract_all(soup)

\* the body of the try block from the parse on: the returned dict
Extractor(soup, url) ==
  LET md       == meta_data(soup)
      stripped == tree_after(soup)
      hdrs     == headers(stripped)
      blocks   == content_blocks(stripped)
      ps       == paragraphs(stripped)
      ls       == lists(stripped)
      all      == all_text(stripped)
  IN  [title              |-> title(soup),
       description        |-> description(md),
       meta_data          |-> md,
       all_text           |-> all,
       structured_content |->
         [headers        |-> hdrs,
          content_blocks |-> blocks,
          paragraphs     |-> ps,
          lists          |-> ls,
          tables         |-> tables(stripped),
          images         |-> first(images(stripped, url), ImagesLimit)],
       combined_content   |-> combined_content(hdrs, blocks, ps, ls, all),
       links              |-> first(links(stripped, url), LinksLimit)]

\* except Exception as e: return {"error": str(e)}
ErrorRecord(e) == [error |-> e]

\* "error" in scraped_data
has_error(rec) == "error" \in DOMAIN rec

\* response: what requests.get / raise_for_status / the parser give for the
\* url: an exception, or the parsed tree
scrape_website(url, response) ==
  IF response.raised THEN ErrorRecord(response.error)
  ELSE Extractor(response.soup, url)

(***************************************************************************)
(* The pages the model scrapes.  A page is described by ten features; the  *)
(* checked pages are those that differ from the base page in at most       *)
(* MaxDeviations features.                                                 *)
(***************************************************************************)

MaxDeviations == 2

Attr(k, v) == k :> v

\* a text of `raw` characters with `gap` spaces after its 50th character
BlockText(raw, gap) == CatAll(<<Rep("x", 50), Rep(" ", gap), Rep("y", raw - 50 - gap)>>)

HeadPart(cfg) ==
  IF cfg.head = "plain"
  THEN <<El("head", NoAttrs,
            <<El("title", NoAttrs, <<Txt(Str("Page T"))>>),
              El("meta", Attr("name", "description") @@ Attr("content", "About"), <<>>)>>)>>
  ELSE IF cfg.head = "heading"
  THEN <<El("head", NoAttrs,
            <<El("title", NoAttrs, <<El("span", NoAttrs, <<Txt(Str("X"))>>), Txt(Str(" Y"))>>),
              El("meta", Attr("property", "og:title"), <<>>),
              El("h2", NoAttrs, <<Txt(Str("In head"))>>)>>)>>
  ELSE <<>>

HeadingPart(cfg) ==
  IF cfg.hs = 1 THEN <<El("h1", NoAttrs, <<Txt(Str("Title"))>>)>>
  ELSE IF cfg.hs = 2
  THEN <<El("h2", NoAttrs, <<Txt(Str(" Sub "))>>),
         El("h1", NoAttrs, <<Txt(Str("Title"))>>)>>
  ELSE <<>>

HiddenPart(cfg) ==
  IF cfg.hidden
  THEN <<El("noscript", NoAttrs,
            <<El("h3", NoAttrs, <<Txt(Str("Hidden"))>>),
              El("div", Attr("class", "content"), <<Txt(Rep("n", 150))>>)>>)>>
  ELSE <<>>

BlockTag(class) ==
  IF class = "Main-Text" THEN "article"
  ELSE IF class = "sidebar" THEN "section" ELSE "div"

BlockPart(cfg) ==
  LET text == Txt(CatAll(<<Str(" "), BlockText(cfg.raw, cfg.gap), Str("\n")>>))
  IN  IF cfg.class = "none" THEN <<>>
      ELSE <<El(BlockTag(cfg.class), Attr("class", cfg.class),
                IF cfg.wrap THEN <<El("p", NoAttrs, <<text>>)>> ELSE <<text>>)>>

ParagraphPart(cfg) ==
  IF cfg.paras = 1
  THEN <<El("p", NoAttrs, <<Txt(Str("Short."))>>), Txt(Str("\n")),
         El("p", NoAttrs, <<Txt(Rep("t", 10))>>),
         El("p", NoAttrs, <<Txt(Str(" ")), El("b", NoAttrs, <<Txt(Rep("e", 11))>>)>>)>>
  ELSE IF cfg.paras = 2
  THEN <<El("p", NoAttrs, <<Txt(Rep("p", 1200))>>)>>
  ELSE <<>>

ListPart(cfg) ==
  IF cfg.list = "ul_mixed"
  THEN <<El("ul", NoAttrs, <<El("li", NoAttrs, <<Txt(Str("a"))>>), El("li", NoAttrs, <<>>)>>)>>
  ELSE IF cfg.list = "ul_blank"
  THEN <<El("ul", NoAttrs, <<El("li", NoAttrs, <<Txt(Str("  "))>>)>>)>>
  ELSE IF cfg.list = "ul_bare"
  THEN <<El("ul", NoAttrs, <<Txt(Str("\n"))>>)>>
  ELSE IF cfg.list = "ol"
  THEN <<El("ol", NoAttrs, <<El("li", NoAttrs, <<Txt(Str("one"))>>),
                             El("li", NoAttrs, <<Txt(Str("two"))>>)>>)>>
  ELSE <<>>

ExtrasPart(cfg) ==
  IF cfg.extras
  THEN <<El("table", NoAttrs,
            <<El("tr", NoAttrs, <<El("th", NoAttrs, <<Txt(Str("H"))>>)>>),
              El("tr", NoAttrs, <<>>),
              El("tr", NoAttrs, <<El("td", NoAttrs, <<Txt(Str("c"))>>)>>)>>),
         El("table", NoAttrs, <<>>),
         El("img", Attr("src", "/a.png"), <<>>),
         El("img", Attr("alt", "no source"), <<>>),
         El("img", Attr("src", "https://cdn.example/i.png") @@ Attr("alt", "logo"), <<>>),
         El("a", Attr("href", "mailto:me@x.com"), <<>>),
         El("a", Attr("href", "next.html"), <<Txt(Str("next"))>>),
         El("a", NoAttrs, <<Txt(Str("anchor"))>>)>>
  ELSE <<>>

\* the parsed tree of the page with these features
Page(cfg) ==
  El("html", NoAttrs,
     HeadPart(cfg) \o <<Txt(Str("\n"))>> \o
     <<El("body", NoAttrs,
          HeadingPart(cfg) \o HiddenPart(cfg) \o BlockPart(cfg)
            \o ParagraphPart(cfg) \o ListPart(cfg) \o ExtrasPart(cfg))>>)

BasePage ==
  [head |-> "none", hs |-> 0, hidden |-> FALSE, class |-> "content", raw |-> 101,
   gap |-> 0, wrap |-> FALSE, paras |-> 0, list |-> "none", extras |-> FALSE]

Features ==
  [head : {"none", "plain", "heading"}, hs : 0..2, hidden : BOOLEAN,
   class : {"content", "Main-Text", "sidebar", "none"},
   raw : {100, 101, 1000, 1001, 2997, 2998}, gap : {0, 2}, wrap : BOOLEAN,
   paras : 0..2, list : {"none", "ul_mixed", "ul_blank", "ul_bare", "ol"},
   extras : BOOLEAN]

Deviations(cfg) == Cardinality({f \in DOMAIN BasePage : cfg[f] # BasePage[f]})

Pages == {Page(cfg) : cfg \in {c \in Features : Deviations(c) <= MaxDeviations}}

Urls == {"https://x.com/p", "https://x.com/docs/q"}

\* the pages the application scrapes: a short page (the full-text dump is
\* its condensed text), a structured page, a page whose title has no
\* string, and a long page
AppPages ==
  {Page(BasePage),
   Page([BasePage EXCEPT !.head = "plain", !.hs = 1, !.raw = 1001, !.extras = TRUE]),
   Page([BasePage EXCEPT !.head = "heading", !.paras = 2, !.list = "ol"]),
   Page([BasePage EXCEPT !.raw = 8000])}

\* requests.get(url) + raise_for_status() + the parse: an exception or a tree
Raised(e) == [raised |-> TRUE, error |-> e, soup |-> <<>>]
Parsed(soup) == [raised |-> FALSE, error |-> "", soup |-> soup]

Responses ==
  {Raised("404 Client Error"), Raised("Connection refused")}
    \cup {Parsed(page) : page \in AppPages}

\* scrape_website for every url and response of the model
ScrapeTable == [u \in Urls, r \in Responses |-> scrape_website(u, r)]

(***************************************************************************)
(* summarize_content, chat_with_content                                    *)
(***************************************************************************)

\* llm.invoke(messages): the reply, or an exception
Reply(text) == [raised |-> FALSE, content |-> text, error |-> ""]
Failure(e) == [raised |-> TRUE, content |-> "", error |-> e]

LLMOutcomes == {Reply("reply A"), Reply("reply B"), Failure("rate limit")}

ModelNames == {"llama3-8b-8192", "mixtral-8x7b-32768", "gemma-7b-it"}

\* api_key = os.getenv("GROQ_API_KEY"): None or "" when it is not set
ApiKeys == {"", "gsk_1"}

NoKeyMessage ==
  "Error: No GROQ_API_KEY found in environment variables. Please add it to your .env file."

\* lines 208 and 233 without their test: the key is taken to be present
key_assumed(key) == FALSE

\* if not api_key
key_missing(key) == key = ""

\* scraped_data['title'] and scraped_data['combined_content'] can be read
\* (else the subscript raises KeyError / TypeError inside the try block)
readable(data) ==
  data # <<>> /\ {"title", "combined_content"} \subseteq DOMAIN data[1]

\* what a call returns to its caller: the value, no exception having left
\* the call (uncaught), and the LLM request it made, if it made one
Returned(v, llm) == [uncaught |-> FALSE, value |-> v, llm |-> llm]

\* except Exception as e: return f"Error summarizing content: {str(e)}"
summarize_except(e, llm) == Returned("Error summarizing content: " \o e, llm)

\* except Exception as e: return f"Error processing chat: {str(e)}"
chat_except(e, llm) == Returned("Error processing chat: " \o e, llm)

\* data: the stored scraped_data (<<>> for None, else <<dict>>);
\* outcome: what llm.invoke does if it is reached
summarize_content(key, model, data, outcome) ==
  IF key_missing(key) THEN Returned(NoKeyMessage, <<>>)
  ELSE IF ~ readable(data) THEN summarize_except("'title'", <<>>)
  ELSE LET llm == <<[fn |-> "summarize", model |-> model, outcome |-> outcome]>>
       IN  IF outcome.raised THEN summarize_except(outcome.error, llm)
           ELSE Returned(outcome.content, llm)

chat_with_content(key, model, data, user_question, outcome) ==
  IF key_missing(key) THEN Returned(NoKeyMessage, <<>>)
  ELSE IF ~ readable(data) THEN chat_except("'title'", <<>>)
  ELSE LET llm == <<[fn |-> "chat", model |-> model, outcome |-> outcome]>>
       IN  IF outcome.raised THEN chat_except(outcome.error, llm)
           ELSE Returned(outcome.content, llm)

(***************************************************************************)
(* The application: st.session_state and the script runs that change it    *)
(***************************************************************************)

MaxHistory == 2
MaxRuns == 2

Questions == {"", "q1", "q2"}
UrlInputs == {""} \cup Urls

VARIABLES
  api_key,       \* the module global api_key
  model_name,    \* the module global model_name (the sidebar selectbox)
  scraped_data,  \* st.session_state.scraped_data: <<>> for None, else <<dict>>
  summary,       \* st.session_state.summary: <<>> for None, else <<str>>
  chat_history,  \* st.session_state.chat_history: a list of (question, answer)
  new_message,   \* st.session_state.new_message
  pc,            \* "rerun" between st.rerun() and the script run it starts
  last,          \* what the last script run did (its input, the calls it made)
  page_url,      \* Extractor runs: the url argument
  html,          \* Extractor runs: the tree as the parser built it
  tree,          \* Extractor runs: the soup object as it is now
  records        \* Extractor runs: the dict each run returned, in order

app_vars == <<api_key, model_name, scraped_data, summary, chat_history,
              new_message, pc, last>>
extractor_vars == <<page_url, html, tree, records>>
vars == <<api_key, model_name, scraped_data, summary, chat_history,
          new_message, pc, last, page_url, html, tree, records>>

\* a script run: the button pressed, the text typed, what the fetch did, the
\* adapter it invoked, the LLM request made, whether an exception escaped
Run(run, input, fetch, invoked, llm, uncaught) ==
  [run |-> run, input |-> input, fetch |-> fetch, invoked |-> invoked,
   llm |-> llm, uncaught |-> uncaught]

\* lines 260-270: the session state of a new session
SessionInit ==
  /\ model_name = "llama3-8b-8192"
  /\ scraped_data = <<>>
  /\ summary = <<>>
  /\ chat_history = <<>>
  /\ new_message = FALSE
  /\ pc = "idle"
  /\ last = Run("start", "", "none", "none", <<>>, FALSE)

Init ==
  /\ api_key \in ApiKeys
  /\ SessionInit
  /\ page_url = "" /\ html = <<>> /\ tree = <<>> /\ records = <<>>

\* if st.session_state.scraped_data and "error" not in st.session_state.scraped_data
\* (lines 291 and 377)
is_success(data) == data # <<>> /\ ~ has_error(data[1])

\* line 291 without its test: summarize whatever the scrape returned
always_summarize(data) == TRUE

\* line 291: whether the scrape handler goes on to summarize
should_summarize(data) == is_success(data)

\* line 377: whether the chat tab shows its input and Send button
can_chat(data) == is_success(data)

\* line 289 left out: the chat history survives a scrape
history_kept(history) == history

\* line 289: st.session_state.chat_history = []
history_after_scrape(history) == <<>>

\* line 276: st.session_state.chat_history.append((user_question, answer))
history_after_send(history, user_question, answer) ==
  Append(history, <<user_question, answer>>)

\* lines 287-293: the handler once the url is known to be non-empty, data
\* being what scrape_website returned and r what summarize_content would
Scraped(u, fetch, data, r) ==
  /\ scraped_data' = data
  /\ chat_history' = history_after_scrape(chat_history)
  /\ IF should_summarize(data)
     THEN /\ summary' = IF r.uncaught THEN summary ELSE <<r.value>>
          /\ last' = Run("scrape", u, fetch, "summarize", r.llm, r.uncaught)
     ELSE /\ UNCHANGED summary
          /\ last' = Run("scrape", u, fetch, "none", <<>>, FALSE)

\* lines 285-293: the script run of a click on "Scrape Website"
ScrapeClick(u, response, outcome) ==
  /\ pc = "idle"
  /\ IF u = ""
     THEN /\ last' = Run("scrape", u, "none", "none", <<>>, FALSE)
          /\ UNCHANGED <<scraped_data, chat_history, summary>>
     ELSE Scraped(u, IF response.raised THEN "raised" ELSE "ok",
                  <<ScrapeTable[u, response]>>,
                  summarize_content(api_key, model_name,
                                    <<ScrapeTable[u, response]>>, outcome))
  /\ UNCHANGED <<api_key, model_name, new_message, pc>>
  /\ UNCHANGED extractor_vars

\* lines 273-277 and 392-394: the script run of a click on "Send"
SendClick(user_question, outcome) ==
  /\ pc = "idle"
  /\ can_chat(scraped_data)
  /\ Len(chat_history) < MaxHistory
  /\ IF user_question = ""
     THEN /\ last' = Run("send", user_question, "none", "none", <<>>, FALSE)
          /\ UNCHANGED <<chat_history, new_message, pc>>
     ELSE LET r == chat_with_content(api_key, model_name, scraped_data,
                                     user_question, outcome)
          IN  /\ last' = Run("send", user_question, "none", "chat", r.llm, r.uncaught)
              /\ IF r.uncaught
                 THEN UNCHANGED <<chat_history, new_message, pc>>
                 ELSE /\ chat_history' =
                           history_after_send(chat_history, user_question, r.value)
                      /\ new_message' = TRUE
                      /\ pc' = "rerun"
  /\ UNCHANGED <<api_key, model_name, scraped_data, summary>>
  /\ UNCHANGED extractor_vars

\* the script run st.rerun() starts: no button is pressed; lines 399-400
Rerun ==
  /\ pc = "rerun"
  /\ pc' = "idle"
  /\ new_message' = FALSE
  /\ last' = Run("rerun", "", "none", "none", <<>>, FALSE)
  /\ UNCHANGED <<api_key, model_name, scraped_data, summary, chat_history>>
  /\ UNCHANGED extractor_vars

\* line 26: another model is picked in the selectbox; the script runs with
\* no button pressed
SelectModel(m) ==
  /\ pc = "idle"
  /\ m # model_name
  /\ model_name' = m
  /\ last' = Run("select", m, "none", "none", <<>>, FALSE)
  /\ UNCHANGED <<api_key, scraped_data, summary, chat_history, new_message, pc>>
  /\ UNCHANGED extractor_vars

Next ==
  \/ \E u \in UrlInputs, response \in Responses, outcome \in LLMOutcomes :
       ScrapeClick(u, response, outcome)
  \/ \E q \in Questions, outcome \in LLMOutcomes : SendClick(q, outcome)
  \/ Rerun
  \/ \E m \in ModelNames : SelectModel(m)

Spec == Init /\ [][Next]_vars

(***************************************************************************)
(* The Extractor run on a tree, and run again on the tree it leaves        *)
(***************************************************************************)

ExtractorInit ==
  /\ api_key = ""
  /\ SessionInit
  /\ page_url \in Urls
  /\ html \in Pages
  /\ tree = html
  /\ records = <<>>

\* lines 40-201 on the soup object
RunExtractor ==
  /\ Len(records) < MaxRuns
  /\ records' = Append(records, Extractor(tree, page_url))
  /\ tree' = tree_after(tree)
  /\ UNCHANGED <<page_url, html>>
  /\ UNCHANGED app_vars

ExtractorNext == RunExtractor

ExtractorSpec == ExtractorInit /\ [][ExtractorNext]_vars

(***************************************************************************)
(* Properties of the application (specification Spec)                      *)
(***************************************************************************)

\* the keys of the dict a successful scrape returns (lines 193-201)
RecordFields ==
  {"title", "description", "meta_data", "all_text", "structured_content",
   "combined_content", "links"}

\* the last pair of a non-empty chat history
LastPair(history) == history[Len(history)]

\* C1: the chat history is an append-only sequence of (question, answer)
\* pairs: a send with a non-empty question appends exactly one pair at the
\* end and leaves the earlier pairs as they were, a scrape that replaces the
\* stored record (error record or not) empties the history, and no other
\* script run changes it.
C1_HistoryAppendOnly ==
  [][IF last'.run = "send" /\ last'.input # ""
     THEN /\ Len(chat_history') = Len(chat_history) + 1
          /\ SubSeq(chat_history', 1, Len(chat_history)) = chat_history
          /\ Len(LastPair(chat_history')) = 2
          /\ LastPair(chat_history')[1] = last'.input
     ELSE IF last'.run = "scrape" /\ last'.input # ""
     THEN scraped_data' # <<>> /\ chat_history' = <<>>
     ELSE chat_history' = chat_history]_vars

\* C1 witness: a send has appended a second pair behind an earlier one
C1_Witness ==
  /\ last.run = "send" /\ last.input # ""
  /\ Len(chat_history) = 2
  /\ chat_history[2][1] = last.input

\* C2: a fetch that raises leaves a record with the error field only, and
\* neither adapter is invoked while the stored record is an error record or
\* absent: summarize runs only in a scrape whose record has no error field,
\* chat only in a send while such a record is stored.
C2_ErrorRecordSkipsAdapters ==
  /\ last.fetch = "raised" =>
       /\ scraped_data # <<>>
       /\ DOMAIN scraped_data[1] = {"error"}
       /\ last.invoked = "none"
  /\ last.invoked = "summarize" =>
       /\ last.run = "scrape"
       /\ scraped_data # <<>>
       /\ "error" \notin DOMAIN scraped_data[1]
  /\ last.invoked = "chat" =>
       /\ last.run = "send"
       /\ scraped_data # <<>>
       /\ "error" \notin DOMAIN scraped_data[1]
  /\ (scraped_data = <<>> \/ "error" \in DOMAIN scraped_data[1]) =>
       last.invoked = "none"

\* C2 witness: a scrape whose fetch raised has stored an error record over
\* a page that had been summarized
C2_Witness ==
  /\ last.run = "scrape" /\ last.fetch = "raised"
  /\ scraped_data = <<[error |-> "404 Client Error"]>>
  /\ summary # <<>>

\* C3: with no API key both adapters return, without raising and without an
\* LLM request, a text containing "No GROQ_API_KEY"; the stored record is the
\* Extractor's, with every field, and is left as it is by a send, which
\* still appends (question, that text).  Whatever the key, an exception of
\* the LLM call comes back as the answer text and nothing propagates.
C3_AdapterErrorsAreText ==
  [][/\ ~ last'.uncaught
     /\ (api_key = "" /\ last'.invoked = "summarize") =>
          /\ last'.llm = <<>>
          /\ summary' # <<>>
          /\ contains(summary'[1], "No GROQ_API_KEY")
          /\ DOMAIN scraped_data'[1] = RecordFields
          /\ \E r \in Responses : scraped_data'[1] = ScrapeTable[last'.input, r]
     /\ (api_key = "" /\ last'.invoked = "chat") =>
          /\ last'.llm = <<>>
          /\ scraped_data' = scraped_data
          /\ DOMAIN scraped_data'[1] = RecordFields
          /\ contains(LastPair(chat_history')[2], "No GROQ_API_KEY")
          /\ chat_history' =
               Append(chat_history, <<last'.input, LastPair(chat_history')[2]>>)
     /\ (last'.llm # <<>> /\ last'.llm[1].outcome.raised) =>
          IF last'.invoked = "summarize"
          THEN summary' # <<>> /\ contains(summary'[1], last'.llm[1].outcome.error)
          ELSE /\ chat_history' # <<>>
               /\ contains(LastPair(chat_history')[2], last'.llm[1].outcome.error)]_vars

\* C3 witness: with no API key, a page was scraped and summarized and a
\* question was sent; both answers are the no-key text
C3_Witness ==
  /\ api_key = ""
  /\ last.invoked = "chat" /\ last.llm = <<>>
  /\ summary = <<NoKeyMessage>>
  /\ LastPair(chat_history) = <<last.input, NoKeyMessage>>

\* C10: the stored summary belongs to the stored record: with a success
\* record stored, the summary is what summarize_content returned for that
\* record; with an error record stored, no summary of an earlier page is
\* stored.
C10_SummaryBelongsToRecord ==
  /\ (scraped_data # <<>> /\ "error" \notin DOMAIN scraped_data[1]) =>
       /\ summary # <<>>
       /\ (last.run = "scrape" /\ last.input # "") =>
            \E outcome \in LLMOutcomes :
              summary = <<summarize_content(api_key, model_name, scraped_data,
                                            outcome).value>>
  /\ (scraped_data # <<>> /\ "error" \in DOMAIN scraped_data[1]) =>
       summary = <<>>

(***************************************************************************)
(* Properties of the Extractor (specification ExtractorSpec)               *)
(***************************************************************************)

\* the record of the first run, and its structured content
first_record == records[1]
structured == first_record.structured_content

\* the text accumulated from headings, content blocks, paragraphs when
\* `with_paragraphs`, and lists, built from the record's own collections
Accumulated(sc, with_paragraphs) ==
  CatAll(<<headers_text(sc.headers), blocks_text(sc.content_blocks),
           IF with_paragraphs THEN paragraphs_text(sc.paragraphs) ELSE <<>>,
           lists_text(sc.lists)>>)

\* the text accumulated after the list step, by the rule of fallback A
AfterLists(sc) ==
  Accumulated(sc, len(Cat(headers_text(sc.headers),
                          blocks_text(sc.content_blocks))) < 3000)

\* C4: fallback B triggers exactly when the text accumulated after the list
\* step, trimmed, is shorter than 1000: the condensed text is then the full
\* text dump, and otherwise the accumulated text, untrimmed.
C4_FallbackBExact ==
  Len(records) >= 1 =>
    IF len(strip(AfterLists(structured))) < 1000
    THEN first_record.combined_content = first_record.all_text
    ELSE first_record.combined_content = AfterLists(structured)

\* C4 witness: an accumulated text of 999 characters once trimmed (1001
\* untrimmed) was replaced by the full text dump
C4_Witness ==
  /\ Len(records) >= 1
  /\ len(strip(AfterLists(structured))) = 999
  /\ len(AfterLists(structured)) = 1001
  /\ first_record.combined_content = first_record.all_text
  /\ first_record.combined_content # AfterLists(structured)

\* C5: fallback A triggers exactly when the text accumulated from headings
\* and content blocks is shorter than 3000: every kept paragraph is then
\* appended, in order, after the blocks and before the lists (also when a
\* block holds the same text); from 3000 on no paragraph is appended.  (The
\* accumulated text is the condensed text unless fallback B replaces it.)
C5_FallbackAExact ==
  Len(records) >= 1 =>
    LET pre == Cat(headers_text(structured.headers),
                   blocks_text(structured.content_blocks))
        acc == Accumulated(structured, len(pre) < 3000)
    IN  len(strip(acc)) >= 1000 => first_record.combined_content = acc

\* C5 witness: 2999 characters before the paragraph step, and the kept
\* paragraphs are in the condensed text
C5_Witness ==
  /\ Len(records) >= 1
  /\ len(Cat(headers_text(structured.headers),
             blocks_text(structured.content_blocks))) = 2999
  /\ Len(structured.paragraphs) >= 1
  /\ first_record.combined_content = Accumulated(structured, TRUE)
  /\ first_record.combined_content # Accumulated(structured, FALSE)

\* the heading elements of a tree
HeadingTags == {"h1", "h2", "h3", "h4", "h5", "h6"}
HeadingElements(t) == {j \in 1..Len(t) : t[j].tag \in HeadingTags}

\* C6: the six heading collections together hold as many entries as the
\* parsed document has heading elements, wherever these occur, each in the
\* collection of its level.
C6_EveryHeadingCollected ==
  Len(records) >= 1 =>
    /\ Len(structured.headers.h1) + Len(structured.headers.h2)
         + Len(structured.headers.h3) + Len(structured.headers.h4)
         + Len(structured.headers.h5) + Len(structured.headers.h6)
       = Cardinality(HeadingElements(html))
    /\ \A tag \in HeadingTags :
         Len(structured.headers[tag])
           = Cardinality({j \in HeadingElements(html) : html[j].tag = tag})

\* C7: every kept content block stores a text longer than 100 characters: a
\* stored text of exactly 100 characters is excluded.
C7_StoredBlockTextOver100 ==
  Len(records) >= 1 =>
    \A k \in 1..Len(structured.content_blocks) :
      len(structured.content_blocks[k].text) > 100

\* C8: every list block has at least one item and no item with an empty
\* text.
C8_NoEmptyListItem ==
  Len(records) >= 1 =>
    \A k \in 1..Len(structured.lists) :
      /\ Len(structured.lists[k].items) >= 1
      /\ \A i \in 1..Len(structured.lists[k].items) :
           len(structured.lists[k].items[i]) > 0

\* C9: a second run on the tree as the first run left it returns a record
\* equal to the first in every field.
C9_SecondRunIdentical ==
  Len(records) >= 2 => records[2] = records[1]
====
